---- MODULE Spec2Model ----
(***************************************************************************)
(* Model of prefect_sqlalchemy/database.py: the helper _execute and the    *)
(* two tasks sqlalchemy_execute and sqlalchemy_query, run as concurrent    *)
(* coroutines against one credentials object (the connection provider)    *)
(* and one database table.                                                 *)
(*                                                                         *)
(* A call is cut into steps at its suspension points (the awaits of        *)
(* database.py:19-21 and the __aexit__ of the async with).  The provider,  *)
(* the connection and the result handle are the environment: acquisition,  *)
(* execute and commit may each raise, and a pending call may be cancelled  *)
(* at any await inside _execute.                                           *)
(***************************************************************************)
EXTENDS Integers, Sequences, FiniteSets

(* ---------------------------------------------------------------- bounds *)
NumCalls == 2
MaxSeedRows == 1
MaxLimit == 2

Calls == 1..NumCalls
ConnIds == 1..NumCalls
NoConn == 0

(* Optional[...] of the signatures (database.py:14, 78). *)
None == <<>>
Some(x) == <<x>>

(* limit: Optional[int] (database.py:78), negative values included. *)
Limits == {None} \cup {Some(n) : n \in (0 - 1)..MaxLimit}

(* The two public tasks (database.py:26, 74). *)
Tasks == {"execute", "query"}

(* Statement classes: one that returns rows, one that does not. *)
Statements == {"SELECT", "INSERT"}
ReturnsRows(q) == q = "SELECT"

(* Rows already in the table before any call; distinct from every row a   *)
(* call inserts (call c inserts the row c).                                *)
SeedRow(i) == NumCalls + i
SeedTables == {[i \in 1..n |-> SeedRow(i)] : n \in 0..MaxSeedRows}

Range(s) == {s[i] : i \in 1..Len(s)}
Prefix(s, n) == SubSeq(s, 1, n)
Min(a, b) == IF a <= b THEN a ELSE b
Max(S) == CHOOSE x \in S : \A y \in S : y <= x

VARIABLES
    pc,          \* position of each call
    task,        \* which task the call is
    query,       \* the statement of the call
    limit,       \* sqlalchemy_query's limit, once read at line 114
    connection,  \* _execute's local `connection` (line 19)
    result,      \* _execute's local `result` (line 20): None or a handle
    outcome,     \* what the call gave its caller: a value or an error
    raised,      \* the error the environment raised in the call, and where
    log,         \* per call: the operations it performed, <<name, conn>>
    table,       \* committed rows of the table, in cursor order
    pending,     \* per connection: rows inserted and not yet committed
    open         \* provider: connections acquired and not released

vars == <<pc, task, query, limit, connection, result, outcome, raised, log,
          table, pending, open>>

Pending == [status |-> "pending", value |-> None, error |-> ""]
Returned(v) == [status |-> "returned", value |-> v, error |-> ""]
Raised(e) == [status |-> "raised", value |-> None, error |-> e]

NotRaised == [at |-> "", error |-> ""]
RaisedAt(step, e) == [at |-> step, error |-> e]

Init ==
    /\ pc = [c \in Calls |-> "idle"]
    /\ task = [c \in Calls |-> "execute"]
    /\ query = [c \in Calls |-> "SELECT"]
    /\ limit = [c \in Calls |-> None]
    /\ connection = [c \in Calls |-> NoConn]
    /\ result = [c \in Calls |-> None]
    /\ outcome = [c \in Calls |-> Pending]
    /\ raised = [c \in Calls |-> NotRaised]
    /\ log = [c \in Calls |-> <<>>]
    /\ table \in SeedTables
    /\ pending = [k \in ConnIds |-> <<>>]
    /\ open = {}

(* ------------------------------------------------------ the result handle *)
(* connection.execute returns a CursorResult (database.py:15, 20).  The    *)
(* handle of an awaited execute holds the rows the statement produced at   *)
(* execute time, a cursor position, and the connection it came from.  The  *)
(* rows are buffered in the handle: a fetch reads the buffer and does not  *)
(* go back to the connection, so it gives the same rows after the          *)
(* connection was released as before.                                       *)
Handle(k, q, rows) ==
    [returns_rows |-> ReturnsRows(q), rows |-> rows, pos |-> 0, conn |-> k]

FetchOk(rows, pos) == [error |-> "", rows |-> rows, pos |-> pos]
FetchError(e, pos) == [error |-> e, rows |-> <<>>, pos |-> pos]

(* result.fetchall(): every remaining row; a handle of a statement that    *)
(* returns no rows raises "This result object does not return rows. It    *)
(* has been closed automatically" (database.py:68-69).                     *)
fetchall(h) ==
    IF ~h.returns_rows
    THEN {FetchError("ResourceClosedError", h.pos)}
    ELSE {FetchOk(SubSeq(h.rows, h.pos + 1, Len(h.rows)), Len(h.rows))}

(* result.fetchmany(n): at most n rows from the cursor position.  The     *)
(* module hands a negative n to the driver unchecked; what the driver     *)
(* does with it is not fixed: it may raise, return nothing, return every  *)
(* remaining row, or slice the buffer as rows[0:n].                        *)
fetchmany(h, n) ==
    IF ~h.returns_rows
    THEN {FetchError("ResourceClosedError", h.pos)}
    ELSE IF n >= 0
    THEN LET last == Min(h.pos + n, Len(h.rows))
         IN  {FetchOk(SubSeq(h.rows, h.pos + 1, last), last)}
    ELSE LET cut == IF Len(h.rows) + n > h.pos THEN Len(h.rows) + n ELSE h.pos
         IN  {FetchError("ValueError", h.pos),
              FetchOk(<<>>, h.pos),
              FetchOk(SubSeq(h.rows, h.pos + 1, Len(h.rows)), Len(h.rows)),
              FetchOk(SubSeq(h.rows, h.pos + 1, cut), cut)}

(* Faulty variants of the fetch branch of sqlalchemy_query. *)
FetchRows_DefaultSize(h, lim) ==
    IF lim = None THEN fetchmany(h, 1) ELSE fetchmany(h, lim[1])

FetchRows_Truthy(h, lim) ==
    IF lim = None \/ lim = Some(0) THEN fetchall(h) ELSE fetchmany(h, lim[1])

FetchRows_Guarded(h, lim) ==
    IF ~h.returns_rows THEN {FetchOk(<<>>, h.pos)}
    ELSE IF lim = None THEN fetchall(h) ELSE fetchmany(h, lim[1])

(* sqlalchemy_query, lines 114-117: the fetch branch on `limit is None`. *)
FetchRows(h, lim) ==
    IF lim = None THEN fetchall(h) ELSE fetchmany(h, lim[1])

(* ------------------------------------------------------ control of a call *)
(* Errors the environment raises at each await of _execute. *)
AcquireErrors == {"OperationalError"}
ExecuteErrors == {"ProgrammingError"}
CommitErrors == {"InternalError"}
Cancelled == "CancelledError"

(* Faulty variant: the connection is released on the normal path only. *)
ExitsOnRaise_Never == FALSE

(* async with (line 19): an exception raised inside the block, a          *)
(* cancellation included, runs the connection's __aexit__ before it       *)
(* propagates.                                                             *)
ExitsOnRaise == TRUE

(* Faulty variant: a failed execute makes the call run _execute again. *)
OnExecuteError_Retry == "acquire"

(* Line 20 raises: nothing catches it, the error leaves the task. *)
OnExecuteError == "done"

(* Faulty variant: line 21 is missing. *)
AfterExecute_NoCommit == "exit"

(* Line 20 returns: line 21, connection.commit(), is next. *)
AfterExecute == "commit"

(* Faulty variant: `connection` is a module-level variable, overwritten by the    *)
(* latest acquisition.                                                     *)
ConnOf_Shared(c) == IF open = {} THEN connection[c] ELSE Max(open)

(* The connection the body of the async with operates on: the local       *)
(* `connection` bound at line 19.                                          *)
ConnOf(c) == connection[c]

(* Faulty variant: sqlalchemy_execute returns the result handle. *)
ExecuteTaskValue_Handle(r) == r

(* sqlalchemy_execute, lines 68-70: the result of _execute is dropped and  *)
(* the task returns None.                                                  *)
ExecuteTaskValue(r) == None

(* No try/except anywhere in the module: an error leaves the task as it   *)
(* was raised.                                                             *)
Propagate(e) == e

(* get_connection() makes a new connection for each acquisition; a        *)
(* connection is named after the call whose acquisition made it.          *)
NewConn(c) == c

Logged(c, name, k) == [log EXCEPT ![c] = Append(@, <<name, k>>)]

(* The task is called: sqlalchemy_execute (line 26) or sqlalchemy_query   *)
(* (line 74) with a statement; both start by calling _execute.            *)
Start(c, t, q) ==
    /\ pc[c] = "idle"
    /\ pc' = [pc EXCEPT ![c] = "acquire"]
    /\ task' = [task EXCEPT ![c] = t]
    /\ query' = [query EXCEPT ![c] = q]
    /\ UNCHANGED <<limit, connection, result, outcome, raised, log, table,
                   pending, open>>

(* Line 19, __aenter__ succeeds: the provider hands out a new connection. *)
Acquire(c) ==
    /\ pc[c] = "acquire"
    /\ connection' = [connection EXCEPT ![c] = NewConn(c)]
    /\ open' = open \cup {NewConn(c)}
    /\ log' = Logged(c, "acquire", NewConn(c))
    /\ pc' = [pc EXCEPT ![c] = "execute"]
    /\ UNCHANGED <<task, query, limit, result, outcome, raised, table,
                   pending>>

(* Line 19, __aenter__ raises: no connection was handed out. *)
AcquireFail(c, e) ==
    /\ pc[c] = "acquire"
    /\ outcome' = [outcome EXCEPT ![c] = Raised(Propagate(e))]
    /\ raised' = [raised EXCEPT ![c] = RaisedAt("acquire", e)]
    /\ pc' = [pc EXCEPT ![c] = "done"]
    /\ UNCHANGED <<task, query, limit, connection, result, log, table,
                   pending, open>>

(* Line 20 returns: the statement ran inside the connection's transaction. *)
Execute(c) ==
    /\ pc[c] = "execute"
    /\ LET k == ConnOf(c)
           q == query[c]
       IN  /\ result' = [result EXCEPT ![c] =
                  Some(Handle(k, q, IF ReturnsRows(q)
                                    THEN table \o pending[k] ELSE <<>>))]
           /\ pending' = IF ReturnsRows(q) THEN pending
                         ELSE [pending EXCEPT ![k] = Append(@, c)]
           /\ log' = Logged(c, "execute", k)
    /\ pc' = [pc EXCEPT ![c] = AfterExecute]
    /\ UNCHANGED <<task, query, limit, connection, outcome, raised, table,
                   open>>

(* An error e is raised at `step` inside the async with: the block is    *)
(* left through __aexit__, which releases the connection and drops its    *)
(* uncommitted rows, and the error goes on to the caller.  The raise      *)
(* touches only the call's own state, so it is one step with the release. *)
RaiseInScope(c, step, e, next) ==
    /\ outcome' = [outcome EXCEPT ![c] = Raised(Propagate(e))]
    /\ raised' = [raised EXCEPT ![c] = RaisedAt(step, e)]
    /\ LET k == ConnOf(c)
       IN  IF ExitsOnRaise
           THEN /\ open' = open \ {k}
                /\ pending' = [pending EXCEPT ![k] = <<>>]
                /\ log' = [log EXCEPT ![c] =
                              @ \o << <<step, k>>, <<"release", k>> >>]
           ELSE /\ log' = Logged(c, step, k)
                /\ UNCHANGED <<open, pending>>
    /\ pc' = [pc EXCEPT ![c] = next]
    /\ UNCHANGED <<task, query, limit, connection, result, table>>

(* Line 20 raises. *)
ExecuteFail(c, e) ==
    /\ pc[c] = "execute"
    /\ RaiseInScope(c, "execute", e, OnExecuteError)

(* Line 21 returns: the transaction's rows are in the table. *)
Commit(c) ==
    /\ pc[c] = "commit"
    /\ LET k == ConnOf(c)
       IN  /\ table' = table \o pending[k]
           /\ pending' = [pending EXCEPT ![k] = <<>>]
           /\ log' = Logged(c, "commit", k)
    /\ pc' = [pc EXCEPT ![c] = "exit"]
    /\ UNCHANGED <<task, query, limit, connection, result, outcome, raised,
                   open>>

(* Line 21 raises: nothing was committed. *)
CommitFail(c, e) ==
    /\ pc[c] = "commit"
    /\ RaiseInScope(c, "commit", e, "done")

(* The caller cancels the task while it is suspended in one of the awaits *)
(* of lines 19-21: CancelledError is raised at that await.  At line 19    *)
(* no connection has been handed out yet.                                  *)
Cancel(c) ==
    /\ pc[c] \in {"acquire", "execute", "commit"}
    /\ IF pc[c] = "acquire"
       THEN /\ outcome' = [outcome EXCEPT ![c] = Raised(Propagate(Cancelled))]
            /\ raised' = [raised EXCEPT ![c] = RaisedAt("acquire", Cancelled)]
            /\ pc' = [pc EXCEPT ![c] = "done"]
            /\ UNCHANGED <<task, query, limit, connection, result, log, table,
                           pending, open>>
       ELSE RaiseInScope(c, pc[c], Cancelled, "done")

(* Normal end of the async with (line 19's __aexit__): the connection is  *)
(* released.  _execute returns `result` (line 22), which                   *)
(* sqlalchemy_execute drops (line 70) and sqlalchemy_query keeps (113).    *)
Exit(c) ==
    /\ pc[c] = "exit"
    /\ LET k == ConnOf(c)
       IN  /\ open' = open \ {k}
           /\ pending' = [pending EXCEPT ![k] = <<>>]
           /\ log' = Logged(c, "release", k)
    /\ IF task[c] = "execute"
       THEN /\ pc' = [pc EXCEPT ![c] = "done"]
            /\ outcome' = [outcome EXCEPT ![c] =
                              Returned(ExecuteTaskValue(result[c]))]
       ELSE /\ pc' = [pc EXCEPT ![c] = "fetch"]
            /\ UNCHANGED outcome
    /\ UNCHANGED <<task, query, limit, connection, result, raised, table>>

(* sqlalchemy_query, lines 114-117: `limit` is read and the rows are      *)
(* fetched from the handle _execute returned.                              *)
Fetch(c, lim) ==
    /\ pc[c] = "fetch"
    /\ LET h == result[c][1]
       IN  \E f \in FetchRows(h, lim) :
               /\ outcome' = [outcome EXCEPT ![c] =
                                 IF f.error = "" THEN Returned(Some(f.rows))
                                 ELSE Raised(Propagate(f.error))]
               /\ raised' = IF f.error = "" THEN raised
                            ELSE [raised EXCEPT ![c] = RaisedAt("fetch", f.error)]
               /\ result' = [result EXCEPT ![c] = Some([h EXCEPT !.pos = f.pos])]
               /\ log' = Logged(c, "fetch", h.conn)
    /\ limit' = [limit EXCEPT ![c] = lim]
    /\ pc' = [pc EXCEPT ![c] = "done"]
    /\ UNCHANGED <<task, query, connection, table, pending, open>>

Next ==
    \E c \in Calls :
        \/ \E t \in Tasks, q \in Statements : Start(c, t, q)
        \/ Acquire(c)
        \/ \E e \in AcquireErrors : AcquireFail(c, e)
        \/ Execute(c)
        \/ \E e \in ExecuteErrors : ExecuteFail(c, e)
        \/ Commit(c)
        \/ \E e \in CommitErrors : CommitFail(c, e)
        \/ Cancel(c)
        \/ Exit(c)
        \/ \E lim \in Limits : Fetch(c, lim)

Spec == Init /\ [][Next]_vars

(* ------------------------------------------------------------ properties *)
Names(c) == [i \in 1..Len(log[c]) |-> log[c][i][1]]
Count(c, name) == Cardinality({i \in 1..Len(log[c]) : log[c][i][1] = name})
Did(c, name) == \E i \in 1..Len(log[c]) : log[c][i][1] = name
Index(c, name) ==
    IF Did(c, name)
    THEN CHOOSE i \in 1..Len(log[c]) :
             /\ log[c][i][1] = name
             /\ \A j \in 1..(i - 1) : log[c][j][1] # name
    ELSE 0
InExecute(c) == pc[c] \in {"acquire", "execute", "commit", "exit"}
Fetched(c) == task[c] = "query" /\ pc[c] = "done" /\ Did(c, "fetch")
TypeOK ==
    /\ pc \in [Calls -> {"idle", "acquire", "execute", "commit", "exit",
                         "fetch", "done"}]
    /\ task \in [Calls -> Tasks]
    /\ query \in [Calls -> Statements]
    /\ limit \in [Calls -> Limits]
    /\ connection \in [Calls -> ConnIds \cup {NoConn}]
    /\ open \subseteq ConnIds

(* C1: a call that has left _execute, by return, by an error of execute  *)
(* or commit, or by cancellation, holds no open connection; whenever no   *)
(* call is inside _execute the provider's number of acquired and not      *)
(* released connections is zero.                                           *)
C1_ConnectionsReleased ==
    /\ \A c \in Calls :
           pc[c] \in {"fetch", "done"} =>
               /\ connection[c] \notin open
               /\ Count(c, "release") = Count(c, "acquire")
    /\ (\A c \in Calls : ~InExecute(c)) => Cardinality(open) = 0

(* Every call is over, one was cancelled while it held a connection, one  *)
(* failed in execute or commit, and nothing is open.                       *)
C1_Witness ==
    /\ \A c \in Calls : pc[c] = "done"
    /\ \E c \in Calls :
           /\ raised[c] = RaisedAt("commit", Cancelled)
           /\ Did(c, "acquire")
    /\ \E c \in Calls : raised[c].error \in ExecuteErrors \cup CommitErrors
    /\ open = {}

(* C2: in a sqlalchemy_query call the fetch happens while the connection *)
(* of the result handle is still open: fetch comes before release.        *)
C2_FetchBeforeRelease ==
    \A c \in Calls :
        (task[c] = "query" /\ Did(c, "fetch")) =>
            /\ Names(c) = <<"acquire", "execute", "commit", "fetch", "release">>
            /\ Index(c, "fetch") < Index(c, "release")

(* C3: when sqlalchemy_execute returns, it returns None, and the          *)
(* statement was executed once and committed once on the call's           *)
(* connection before the release, so its row is in the table.             *)
C3_ExecuteCommitted ==
    \A c \in Calls :
        (task[c] = "execute" /\ outcome[c].status = "returned") =>
            /\ outcome[c].value = None
            /\ log[c] = << <<"acquire", connection[c]>>,
                           <<"execute", connection[c]>>,
                           <<"commit", connection[c]>>,
                           <<"release", connection[c]>> >>
            /\ (~ReturnsRows(query[c]) => c \in Range(table))

(* A sqlalchemy_execute of an INSERT has returned and its row is there. *)
C3_Witness ==
    \E c \in Calls :
        /\ task[c] = "execute"
        /\ query[c] = "INSERT"
        /\ outcome[c] = Returned(None)
        /\ c \in Range(table)

(* C4: sqlalchemy_query of a SELECT with limit None returns every row of  *)
(* the result, the table as it was at execute time, in cursor order, and  *)
(* leaves the handle exhausted.                                            *)
C4_FetchAll ==
    \A c \in Calls :
        (Fetched(c) /\ ReturnsRows(query[c]) /\ limit[c] = None) =>
            LET h == result[c][1]
            IN  /\ outcome[c] = Returned(Some(h.rows))
                /\ h.rows = Prefix(table, Len(h.rows))
                /\ h.pos = Len(h.rows)

(* A SELECT over two rows, one of them inserted by another call, was     *)
(* fetched with limit None.                                                *)
C4_Witness ==
    \E c \in Calls :
        /\ Fetched(c) /\ query[c] = "SELECT" /\ limit[c] = None
        /\ Len(result[c][1].rows) >= 2
        /\ outcome[c].status = "returned"
        /\ Len(outcome[c].value[1]) >= 2

(* C5: sqlalchemy_query of a SELECT with N rows and a limit n >= 0        *)
(* returns the first min(n, N) rows: [] for n = 0, all N rows for n > N.  *)
C5_FetchMany ==
    \A c \in Calls :
        (Fetched(c) /\ ReturnsRows(query[c]) /\ limit[c] # None
         /\ limit[c][1] >= 0) =>
            LET h == result[c][1]
                n == limit[c][1]
            IN  /\ outcome[c] =
                       Returned(Some(Prefix(h.rows, Min(n, Len(h.rows)))))
                /\ h.rows = Prefix(table, Len(h.rows))

(* One SELECT over a non-empty result returned [] for limit 0, and        *)
(* another returned a proper non-empty prefix or all rows for n > N.      *)
C5_Witness ==
    \E c, d \in Calls :
        /\ Fetched(c) /\ query[c] = "SELECT" /\ limit[c] = Some(0)
        /\ Len(result[c][1].rows) >= 1
        /\ outcome[c] = Returned(Some(<<>>))
        /\ Fetched(d) /\ query[d] = "SELECT" /\ limit[d] # None
        /\ limit[d][1] >= 1
        /\ Len(result[d][1].rows) >= 1
        /\ limit[d][1] # Len(result[d][1].rows)
        /\ outcome[d].status = "returned"

(* C6: sqlalchemy_query of a statement that returns no rows ends in the  *)
(* result-shape error, raised by the fetch, whatever the limit.           *)
C6_NoRowsRaises ==
    \A c \in Calls :
        (Fetched(c) /\ ~ReturnsRows(query[c])) =>
            /\ outcome[c] = Raised("ResourceClosedError")
            /\ raised[c].at = "fetch"

(* An INSERT went through sqlalchemy_query with limit None and another   *)
(* with a limit; both raised at the fetch.                                 *)
C6_Witness ==
    \E c, d \in Calls :
        /\ Fetched(c) /\ query[c] = "INSERT" /\ limit[c] = None
        /\ outcome[c].status = "raised"
        /\ Fetched(d) /\ query[d] = "INSERT" /\ limit[d] # None
        /\ outcome[d].status = "raised"

(* C7: sqlalchemy_query with a negative limit ends in a failure and       *)
(* never returns rows.                                                     *)
C7_NegativeLimitFails ==
    \A c \in Calls :
        (Fetched(c) /\ limit[c] # None /\ limit[c][1] < 0) =>
            outcome[c].status = "raised"

(* C8: when acquisition or execute fails, commit is not called, nothing   *)
(* is tried a second time, the caller gets the error that was raised,     *)
(* and a connection that was acquired is released.                         *)
C8_FailureBeforeCommit ==
    \A c \in Calls :
        raised[c].at \in {"acquire", "execute"} =>
            /\ Count(c, "commit") = 0
            /\ Count(c, "acquire") <= 1
            /\ Count(c, "execute") <= 1
            /\ result[c] = None
            /\ outcome[c] = Raised(raised[c].error)
            /\ pc[c] = "done"
            /\ connection[c] \notin open
            /\ Count(c, "release") = Count(c, "acquire")

(* An execute raised in one call and the acquisition in another; both    *)
(* calls are over.                                                          *)
C8_Witness ==
    \E c, d \in Calls :
        /\ pc[c] = "done" /\ raised[c].at = "execute"
        /\ raised[c].error \in ExecuteErrors
        /\ Names(c) = <<"acquire", "execute", "release">>
        /\ pc[d] = "done" /\ raised[d].at = "acquire"
        /\ raised[d].error \in AcquireErrors
        /\ log[d] = <<>>

(* C9: under any interleaving a call acquires at most one connection,    *)
(* exactly one once it is past the acquisition, and every execute,       *)
(* commit, release and fetch of the call is on that connection; no two   *)
(* calls have the same connection.                                         *)
C9_OwnConnection ==
    /\ \A c \in Calls :
           /\ Count(c, "acquire") <= 1
           /\ (pc[c] \in {"execute", "commit", "exit", "fetch"} =>
                   Count(c, "acquire") = 1)
           /\ \A i \in 1..Len(log[c]) : log[c][i][2] = connection[c]
    /\ \A c, d \in Calls :
           (c # d /\ connection[c] # NoConn) => connection[c] # connection[d]

(* Two calls hold connections at the same time; one has committed while  *)
(* the other has executed and not yet committed.                           *)
C9_Witness ==
    \E c, d \in Calls :
        /\ c # d
        /\ {connection[c], connection[d]} \subseteq open
        /\ pc[c] = "commit" /\ pc[d] = "exit"
        /\ Did(d, "commit")
        /\ query[c] = "INSERT" /\ query[d] = "INSERT"

(* C10: a sqlalchemy_query call that fails at the fetch has committed     *)
(* before: its statement's row is in the table although the call raised. *)
C10_CommittedBeforeFetchError ==
    \A c \in Calls :
        (task[c] = "query" /\ raised[c].at = "fetch") =>
            /\ Names(c) = <<"acquire", "execute", "commit", "release", "fetch">>
            /\ Index(c, "commit") < Index(c, "fetch")
            /\ (~ReturnsRows(query[c]) => c \in Range(table))

(* sqlalchemy_query of an INSERT raised at the fetch and the row is in    *)
(* the table.                                                               *)
C10_Witness ==
    \E c \in Calls :
        /\ task[c] = "query" /\ query[c] = "INSERT"
        /\ outcome[c] = Raised("ResourceClosedError")
        /\ c \in Range(table)

====
